---- MODULE Spec2Model ----
(***************************************************************************)
(* A model of world_sk8_parks: the TTL cache (app/core/cache.py), the      *)
(* Overpass and geocoding clients (app/services) and the orchestrator      *)
(* SkateparksService.find_by_city_and_radius.                              *)
(*                                                                         *)
(* Time is an integer clock `now` counted in tenths of a second, so that   *)
(* asyncio.sleep(1.1) is 11 ticks.  A Python dict is a TLA+ function whose *)
(* DOMAIN is the set of keys present; an Optional result is the record     *)
(* NoneResult or Some(v).  A Python str is a sequence of one-character     *)
(* strings, so that strip() and lower() are computed.                      *)
(***************************************************************************)
EXTENDS Integers, Sequences, FiniteSets, TLC

VARIABLES
    store,      \* TTLCache._store: key -> [value, expires_at]
    now,        \* time.time(), in tenths of a second
    lastOp,     \* history: the last cache call made in the sequential cache specification
    lastSet,    \* history: per key, the latest set() on it
    thr,        \* per worker thread, its position inside TTLCache.get / TTLCache.set
    pc,         \* where the find_by_city_and_radius call in progress stands
    req,        \* its arguments: city, radius_m, resolve_address
    center,     \* (lat, lon, center_address) returned by geocode_city
    tasks,      \* the three OverpassService.query coroutines handed to asyncio.gather
    all_elements,   \* skatepark_service.py:103
    features,       \* skatepark_service.py:114
    skateparks,     \* skatepark_service.py:115
    idx,        \* position of the enrichment loop in skateparks
    outcome,    \* what the call handed to its caller: a result or an exception
    nreq,       \* number of calls started so far
    lookups,    \* history: the reverse_geocode calls of the call in progress
    kin,        \* the two requests whose cache keys are derived
    kout,       \* the cache keys derived for them
    qry,        \* per concurrent caller, its position inside OverpassService.query
    order       \* history: the query coroutines of one join, in the order they finished

auxVars   == <<lastOp, lastSet, thr>>
orchVars  == <<pc, req, center, tasks, all_elements, features, skateparks, idx,
               outcome, nreq, lookups>>
sideVars  == <<kin, kout, qry, order>>
vars      == <<store, now, lastOp, lastSet, thr, pc, req, center, tasks, all_elements,
               features, skateparks, idx, outcome, nreq, lookups, kin, kout, qry, order>>

-----------------------------------------------------------------------------
(* Bounds of the model *)

MaxTime    == 4     \* the clock of the cache specifications stops here
MaxTTL     == 2     \* ttl_seconds arguments tried by the cache specifications: 1..MaxTTL
NThreads   == 2     \* worker threads calling the cache concurrently

-----------------------------------------------------------------------------
(* Python values *)

NoneResult == [isNone |-> TRUE]
Some(v)    == [isNone |-> FALSE, value |-> v]

EmptyDict  == <<>>
DictPop(d, k)    == [x \in (DOMAIN d) \ {k} |-> d[x]]
DictPut(d, k, v) == [x \in (DOMAIN d) \cup {k} |-> IF x = k THEN v ELSE d[x]]

-----------------------------------------------------------------------------
(* TTLCache (app/core/cache.py) *)

\* cache.py:20  `time.time() > expires_at`
Expired(item, t) == t > item.expires_at

\* the value TTLCache.get returns (cache.py:15-24)
CacheGetResult(s, k, t) ==
    IF k \notin DOMAIN s THEN NoneResult
    ELSE IF Expired(s[k], t) THEN NoneResult
    ELSE Some(s[k].value)

\* a get that reports an expired entry as absent but leaves it in the store
CacheGetStoreKeep(s, k, t) == s

\* the store TTLCache.get leaves behind (cache.py:20-22: pop on expiry)
CacheGetStore(s, k, t) ==
    IF k \in DOMAIN s /\ Expired(s[k], t) THEN DictPop(s, k) ELSE s

\* a set that keeps an entry already present (dict.setdefault)
CacheSetStoreKeepOld(s, k, v, ttl, t) ==
    IF k \in DOMAIN s THEN s ELSE DictPut(s, k, [value |-> v, expires_at |-> t + ttl])

\* the store TTLCache.set leaves behind (cache.py:26-28)
CacheSetStore(s, k, v, ttl, t) ==
    DictPut(s, k, [value |-> v, expires_at |-> t + ttl])

-----------------------------------------------------------------------------
(* Python str and float helpers.  A str is a sequence of one-character      *)
(* strings; a coordinate is an integer count of 1e-7 degrees, so that       *)
(* round(x, 6) and round(x, 5) are computed.                                *)

Whitespace == {" ", "\t"}

RECURSIVE LStrip(_)
LStrip(s) == IF s # <<>> /\ Head(s) \in Whitespace THEN LStrip(Tail(s)) ELSE s

RECURSIVE RStrip(_)
RStrip(s) ==
    IF s # <<>> /\ s[Len(s)] \in Whitespace THEN RStrip(SubSeq(s, 1, Len(s) - 1)) ELSE s

\* str.strip()
Strip(s) == RStrip(LStrip(s))

UpperToLower == [A |-> "a", B |-> "b", C |-> "c", L |-> "l", R |-> "r", W |-> "w", X |-> "x"]

\* str.lower()
Lower(s) == [i \in 1 .. Len(s) |->
                IF s[i] \in DOMAIN UpperToLower THEN UpperToLower[s[i]] ELSE s[i]]

\* round half to even to a multiple of m (m = 10: round(x, 6); m = 100: round(x, 5))
RoundTo(x, m) ==
    LET q == x \div m
        r == x % m
    IN  IF 2 * r < m THEN q * m
        ELSE IF 2 * r > m THEN (q + 1) * m
        ELSE IF q % 2 = 0 THEN q * m ELSE (q + 1) * m

Round6(x) == RoundTo(x, 10)
Round5(x) == RoundTo(x, 100)

\* dict.get(k, default)
DictGet(d, k, default) == IF k \in DOMAIN d THEN d[k] ELSE default

\* ", ".join(parts)
RECURSIVE Join(_)
Join(parts) ==
    IF parts = <<>> THEN <<>>
    ELSE IF Len(parts) = 1 THEN parts[1]
    ELSE parts[1] \o <<",", " ">> \o Join(Tail(parts))

\* a or b, for two str values
StrOr(a, b) == IF a # <<>> THEN a ELSE b

-----------------------------------------------------------------------------
(* _build_display_address (skatepark_service.py:7-51) *)

BuildDisplayAddress(tags) ==
    IF tags = EmptyDict THEN NoneResult
    ELSE
    LET full == StrOr(DictGet(tags, "addr:full", <<>>), DictGet(tags, "address", <<>>))
        street == Strip(DictGet(tags, "addr:street", <<>>))
        housenumber == Strip(DictGet(tags, "addr:housenumber", <<>>))
        unit == Strip(DictGet(tags, "addr:unit", <<>>))
        city == Strip(StrOr(DictGet(tags, "addr:city", <<>>),
                      StrOr(DictGet(tags, "addr:town", <<>>),
                      StrOr(DictGet(tags, "addr:village", <<>>),
                            DictGet(tags, "addr:municipality", <<>>)))))
        postcode == Strip(DictGet(tags, "addr:postcode", <<>>))
        country == Strip(DictGet(tags, "addr:country", <<>>))
        line == street
                  \o (IF housenumber # <<>> THEN <<" ">> \o housenumber ELSE <<>>)
                  \o (IF unit # <<>> THEN <<",", " ">> \o unit ELSE <<>>)
        parts == (IF street # <<>> THEN <<line>>
                  ELSE IF housenumber # <<>> THEN <<housenumber>> ELSE <<>>)
                  \o (IF city # <<>> THEN <<city>> ELSE <<>>)
                  \o (IF postcode # <<>> THEN <<postcode>> ELSE <<>>)
                  \o (IF country # <<>> THEN <<country>> ELSE <<>>)
    IN  IF full # <<>> /\ Strip(full) # <<>> THEN Some(Strip(full))
        ELSE IF parts = <<>> THEN NoneResult
        ELSE Some(Join(parts))

-----------------------------------------------------------------------------
(* OverpassService (overpass_service.py) *)

\* overpass_service.py:80-89  the coordinate of one element, or None
ElementCoord(el) ==
    IF el["type"] = "node"
    THEN IF "lat" \in DOMAIN el /\ "lon" \in DOMAIN el
         THEN Some([lat |-> el["lat"], lon |-> el["lon"]]) ELSE NoneResult
    ELSE LET ctr == DictGet(el, "center", EmptyDict)
         IN  IF "lat" \in DOMAIN ctr /\ "lon" \in DOMAIN ctr
             THEN Some([lat |-> ctr["lat"], lon |-> ctr["lon"]]) ELSE NoneResult

\* overpass_service.py:91-104  the GeoJSON feature of an element with a coordinate
ElementFeature(el) ==
    LET tags == DictGet(el, "tags", EmptyDict)
        c == ElementCoord(el).value
    IN  [type |-> "Feature",
         id |-> <<el["type"], el["id"]>>,
         properties |-> [name |-> IF "name" \in DOMAIN tags THEN Some(tags["name"])
                                  ELSE NoneResult,
                         osm_type |-> el["type"],
                         osm_id |-> el["id"],
                         tags |-> tags],
         geometry |-> [type |-> "Point", coordinates |-> <<c.lon, c.lat>>]]

\* osm_elements_to_geojson with the point branch used for every element kind
RECURSIVE FeaturesPointOnly(_)
FeaturesPointOnly(elements) ==
    IF elements = <<>> THEN <<>>
    ELSE LET el == Head(elements) IN
         IF "lat" \in DOMAIN el /\ "lon" \in DOMAIN el
         THEN <<ElementFeature([el EXCEPT !["type"] = "node"])>>
                  \o FeaturesPointOnly(Tail(elements))
         ELSE FeaturesPointOnly(Tail(elements))

\* overpass_service.py:70-109  osm_elements_to_geojson: the "features" list
RECURSIVE OsmElementsToGeojson(_)
OsmElementsToGeojson(elements) ==
    IF elements = <<>> THEN <<>>
    ELSE (IF ElementCoord(Head(elements)).isNone THEN <<>>
          ELSE <<ElementFeature(Head(elements))>>)
         \o OsmElementsToGeojson(Tail(elements))

\* overpass_service.py:57-60  whether the body carries a populated remark or error
InBandError(body) ==
    \/ DictGet(body, "remark", "") # ""
    \/ DictGet(body, "error", "") # ""

\* the exception OverpassService.query raises for a provider response, or NoErr
\* (overpass_service.py:52-60)
NoErr == [type |-> "none", msg |-> ""]

QueryError(resp) ==
    IF resp.kind = "raise" THEN resp.err
    ELSE IF DictGet(resp.body, "remark", "") # ""
         THEN [type |-> "RuntimeError", msg |-> "Overpass remark"]
    ELSE IF DictGet(resp.body, "error", "") # ""
         THEN [type |-> "RuntimeError", msg |-> "Overpass error"]
    ELSE NoErr

\* a query that stores the body before looking at remark / error
QueryStoreBeforeCheck(s, key, resp, ttl, t) ==
    IF resp.kind = "raise" THEN s ELSE CacheSetStore(s, key, resp.body, ttl, t)

\* the store OverpassService.query leaves behind once the provider has answered
\* (overpass_service.py:51-66)
QueryStore(s, key, resp, ttl, t) ==
    IF QueryError(resp) = NoErr THEN CacheSetStore(s, key, resp.body, ttl, t) ELSE s

\* a hit test that takes a cached result without elements for a miss
CachedWithElements(res) ==
    ~res.isNone /\ DictGet(res.value, "elements", <<>>) # <<>>

\* overpass_service.py:48  `if cached:` on the dict the cache returned
CachedTruthy(res) == ~res.isNone /\ res.value # EmptyDict

\* overpass_service.py:18-20  sha256 over the sorted JSON of the payload: the key is
\* modelled by the canonical payload itself (the digest is taken to be injective)
OverpassCacheKey(payload) == <<"overpass", payload>>

-----------------------------------------------------------------------------
(* GeocodingService (geocoding_service.py) *)

\* a key built from the city as typed
GeocodeCacheKeyNoLower(city) == <<"geocode", [city |-> Strip(city)]>>

\* geocoding_service.py:17-20
GeocodeCacheKey(city) == <<"geocode", [city |-> Strip(Lower(city))]>>

\* a blank test that forgets to strip
CityIsBlankNoStrip(city) == city = <<>>

\* geocoding_service.py:26-27  city = city.strip(); if not city
CityIsBlank(city) == Strip(city) = <<>>

\* a key that leaves the longitude out
ReverseCacheKeyLatOnly(lat, lon) == <<"reverse", [lat |-> Round5(lat), lon |-> Round5(lat)]>>

\* geocoding_service.py:58-61
ReverseCacheKey(lat, lon) == <<"reverse", [lat |-> Round5(lat), lon |-> Round5(lon)]>>

-----------------------------------------------------------------------------
(* SkateparksService.find_by_city_and_radius: the synchronous parts *)

\* skatepark_service.py:104-105  the elements of the three results, in query order
AllReturned(results) ==
    DictGet(results[1], "elements", <<>>)
        \o DictGet(results[2], "elements", <<>>)
        \o DictGet(results[3], "elements", <<>>)

RECURSIVE Dedup(_, _)
Dedup(els, seen) ==
    IF els = <<>> THEN <<>>
    ELSE LET key == <<Head(els)["type"], Head(els)["id"]>> IN
         IF key \in seen THEN Dedup(Tail(els), seen)
         ELSE <<Head(els)>> \o Dedup(Tail(els), seen \cup {key})

\* a merge that appends every element without consulting `seen`
MergeKeepAll(results) == AllReturned(results)

\* skatepark_service.py:101-109  merge and remove duplicates (same type+id)
MergeElements(results) == Dedup(AllReturned(results), {})

\* skatepark_service.py:125-130  one record; `origin` is not part of the output: it
\* remembers the (type, id) of the element the record was built from
SkateparkRecord(f, name) ==
    [name |-> name,
     lat |-> Round6(f.geometry.coordinates[2]),
     lon |-> Round6(f.geometry.coordinates[1]),
     address |-> BuildDisplayAddress(f.properties.tags),
     origin |-> f.id]

\* the name filter without the strip(): `name = props.get("name") or ""`
RECURSIVE BuildSkateparksNoStrip(_)
BuildSkateparksNoStrip(fs) ==
    IF fs = <<>> THEN <<>>
    ELSE LET f == Head(fs)
             name == IF f.properties.name.isNone THEN <<>> ELSE f.properties.name.value
         IN  (IF name = <<>> THEN <<>> ELSE <<SkateparkRecord(f, name)>>)
                 \o BuildSkateparksNoStrip(Tail(fs))

\* skatepark_service.py:113-130  only features that have a name
RECURSIVE BuildSkateparks(_)
BuildSkateparks(fs) ==
    IF fs = <<>> THEN <<>>
    ELSE LET f == Head(fs)
             name == Strip(IF f.properties.name.isNone THEN <<>>
                           ELSE f.properties.name.value)
         IN  (IF name = <<>> THEN <<>> ELSE <<SkateparkRecord(f, name)>>)
                 \o BuildSkateparks(Tail(fs))

\* a loop that looks every record up, whether it has an address or not
NextIdxAny(sk, from) == IF from <= Len(sk) THEN from ELSE 0

\* skatepark_service.py:134-136  the next item at or after position `from` whose
\* address is None; 0 when the loop is exhausted
NextIdx(sk, from) ==
    LET c == {j \in from .. Len(sk) : sk[j].address.isNone}
    IN  IF c = {} THEN 0 ELSE CHOOSE j \in c : \A k \in c : j <= k

\* a pause only after a lookup that brought an address back
PauseAfterIfAddress(from_cache, addr) == ~from_cache /\ addr # <<>>

\* skatepark_service.py:144-145  `if not from_cache: await asyncio.sleep(1.1)`
PauseAfter(from_cache, addr) == ~from_cache

\* a result that reports the city in the form the cache keys use
AggregateResultCanonicalCity(sk, city, ctr, radius_m) ==
    [skateparks |-> sk,
     metadata |-> [city |-> Strip(Lower(city)),
                   address |-> ctr.address,
                   center |-> [lat |-> ctr.lat, lon |-> ctr.lon],
                   radius_m |-> radius_m,
                   total |-> Len(sk)]]

\* skatepark_service.py:147-156
AggregateResult(sk, city, ctr, radius_m) ==
    [skateparks |-> sk,
     metadata |-> [city |-> city,
                   address |-> ctr.address,
                   center |-> [lat |-> ctr.lat, lon |-> ctr.lon],
                   radius_m |-> radius_m,
                   total |-> Len(sk)]]

-----------------------------------------------------------------------------
(* The cache alone, called sequentially: SpecCache *)

Keys   == {"k1", "k2"}
Values == {"v1", "v2"}
TTLs   == 1 .. MaxTTL

NoSet  == [set |-> FALSE]
IdleThr == [pc |-> "idle"]

NoTask == [st |-> "none", key |-> <<>>, data |-> EmptyDict, err |-> NoErr]
NoReq  == [city |-> <<>>, radius_m |-> 0, resolve_address |-> FALSE, geo_start |-> -1]
NoCenter == [lat |-> 0, lon |-> 0, address |-> <<>>]
NoKeyRequest == [kind |-> "none"]
Callers == {1, 2}
IdleQry == [st |-> "idle", data |-> EmptyDict, err |-> NoErr]

\* the process after start-up: an empty cache (routers/skateparks.py:17) and no call
Init ==
    /\ store = EmptyDict
    /\ now = 0
    /\ lastOp = [op |-> "none"]
    /\ lastSet = [k \in Keys |-> NoSet]
    /\ thr = [t \in 1 .. NThreads |-> IdleThr]
    /\ pc = "idle"
    /\ req = NoReq
    /\ center = NoCenter
    /\ tasks = [i \in 1 .. 3 |-> NoTask]
    /\ all_elements = <<>>
    /\ features = <<>>
    /\ skateparks = <<>>
    /\ idx = 0
    /\ outcome = [kind |-> "none"]
    /\ nreq = 0
    /\ lookups = <<>>
    /\ kin = <<NoKeyRequest, NoKeyRequest>>
    /\ kout = <<NoneResult, NoneResult>>
    /\ qry = [c \in Callers |-> IdleQry]
    /\ order = <<>>

\* cache.set(k, v, ttl)
DoSet(k, v, ttl) ==
    /\ store' = CacheSetStore(store, k, v, ttl, now)
    /\ lastOp' = [op |-> "set", key |-> k]
    /\ lastSet' = [lastSet EXCEPT ![k] =
                      [set |-> TRUE, value |-> v, ttl |-> ttl, at |-> now, gets |-> 0,
                       over |-> (k \in DOMAIN store /\ store[k].value # v)]]
    /\ UNCHANGED <<now, thr>>
    /\ UNCHANGED orchVars
    /\ UNCHANGED sideVars

\* cache.get(k)
DoGet(k) ==
    /\ store' = CacheGetStore(store, k, now)
    /\ lastOp' = [op |-> "get", key |-> k, result |-> CacheGetResult(store, k, now),
                  at |-> now]
    /\ lastSet' = [lastSet EXCEPT ![k] =
                      IF @.set /\ @.gets < 2 THEN [lastSet[k] EXCEPT !.gets = @ + 1] ELSE @]
    /\ UNCHANGED <<now, thr>>
    /\ UNCHANGED orchVars
    /\ UNCHANGED sideVars

\* simulated time advances by one tick
TickCache ==
    /\ now < MaxTime
    /\ now' = now + 1
    /\ UNCHANGED <<store, lastOp, lastSet, thr>>
    /\ UNCHANGED orchVars
    /\ UNCHANGED sideVars

NextCache ==
    \/ \E k \in Keys, v \in Values, ttl \in TTLs : DoSet(k, v, ttl)
    \/ \E k \in Keys : DoGet(k)
    \/ TickCache

SpecCache == Init /\ [][NextCache]_vars

\* C8: a get(key) made after set(key, value, ttl), ttl > 0, with no time elapsed and
\* no other set on the key in between, returns exactly value, whatever the key held
\* before the set.
C8_GetAfterSetReturnsValue ==
    lastOp.op = "get" =>
        LET ls == lastSet[lastOp.key] IN
        (ls.set /\ ls.ttl > 0 /\ lastOp.at = ls.at) => lastOp.result = Some(ls.value)

\* C8's case: the set overwrote an entry holding another value and the get that
\* followed at the same instant returned the new value
C8_Witness ==
    /\ lastOp.op = "get"
    /\ lastSet[lastOp.key].set
    /\ lastSet[lastOp.key].over
    /\ lastOp.at = lastSet[lastOp.key].at
    /\ lastOp.result = Some(lastSet[lastOp.key].value)

\* C9 as stated: once simulated time >= ttl has elapsed since set(key, value, ttl),
\* get(key) returns empty and the entry is gone from the store (so a second get
\* returns empty too).
C9_EmptyOnceTtlElapsed ==
    lastOp.op = "get" =>
        LET ls == lastSet[lastOp.key] IN
        (ls.set /\ ls.ttl > 0 /\ lastOp.at - ls.at >= ls.ttl) =>
            /\ lastOp.result = NoneResult
            /\ lastOp.key \notin DOMAIN store

\* C9 amended: once simulated time strictly greater than ttl has elapsed since
\* set(key, value, ttl), every get(key) returns empty and leaves no entry under the
\* key in the store; at an elapsed time of exactly ttl the entry is still returned.
C9_EmptyOnceTtlExceeded ==
    lastOp.op = "get" =>
        LET ls == lastSet[lastOp.key] IN
        /\ (ls.set /\ ls.ttl > 0 /\ lastOp.at - ls.at > ls.ttl) =>
              /\ lastOp.result = NoneResult
              /\ lastOp.key \notin DOMAIN store
        /\ (ls.set /\ ls.ttl > 0 /\ lastOp.at - ls.at = ls.ttl) =>
              lastOp.result = Some(ls.value)

\* C9's case: the second get after the entry's ttl was exceeded
C9_Witness ==
    /\ lastOp.op = "get"
    /\ lastSet[lastOp.key].set
    /\ lastOp.at - lastSet[lastOp.key].at > lastSet[lastOp.key].ttl
    /\ lastSet[lastOp.key].gets = 2
    /\ lastOp.result = NoneResult

-----------------------------------------------------------------------------
(* The cache called from several threads: SpecThreads.                      *)
(* TTLCache takes no lock, so a thread can be preempted between the         *)
(* statements of get and set; each action below is one statement.           *)

Threads == 1 .. NThreads

\* cache.py:15-17  item = self._store.get(key); if not item: return None
TGetLookup(t, k) ==
    /\ thr[t].pc = "idle"
    /\ thr' = [thr EXCEPT ![t] =
                  IF k \in DOMAIN store
                  THEN [pc |-> "get_check", key |-> k, item |-> store[k]]
                  ELSE IdleThr]
    /\ UNCHANGED <<store, now, lastOp, lastSet>>
    /\ UNCHANGED orchVars
    /\ UNCHANGED sideVars

\* cache.py:19-20,24  the expiry test on the item read, and the return of its value
TGetCheck(t) ==
    /\ thr[t].pc = "get_check"
    /\ thr' = [thr EXCEPT ![t] =
                  IF Expired(@.item, now) THEN [@ EXCEPT !.pc = "get_pop"] ELSE IdleThr]
    /\ UNCHANGED <<store, now, lastOp, lastSet>>
    /\ UNCHANGED orchVars
    /\ UNCHANGED sideVars

\* cache.py:21-22  self._store.pop(key, None); return None
TGetPop(t) ==
    /\ thr[t].pc = "get_pop"
    /\ store' = DictPop(store, thr[t].key)
    /\ thr' = [thr EXCEPT ![t] = IdleThr]
    /\ UNCHANGED <<now, lastOp, lastSet>>
    /\ UNCHANGED orchVars
    /\ UNCHANGED sideVars

\* cache.py:27  expires_at = time.time() + ttl_seconds
TSetTime(t, k, v, ttl) ==
    /\ thr[t].pc = "idle"
    /\ thr' = [thr EXCEPT ![t] =
                  [pc |-> "set_store", key |-> k,
                   item |-> [value |-> v, expires_at |-> now + ttl]]]
    /\ UNCHANGED <<store, now, lastOp, lastSet>>
    /\ UNCHANGED orchVars
    /\ UNCHANGED sideVars

\* cache.py:28  self._store[key] = (value, expires_at)
TSetStore(t) ==
    /\ thr[t].pc = "set_store"
    /\ store' = DictPut(store, thr[t].key, thr[t].item)
    /\ thr' = [thr EXCEPT ![t] = IdleThr]
    /\ UNCHANGED <<now, lastOp, lastSet>>
    /\ UNCHANGED orchVars
    /\ UNCHANGED sideVars

TickThreads ==
    /\ now < MaxTime
    /\ now' = now + 1
    /\ UNCHANGED <<store, lastOp, lastSet, thr>>
    /\ UNCHANGED orchVars
    /\ UNCHANGED sideVars

NextThreads ==
    \/ \E t \in Threads, k \in Keys : TGetLookup(t, k)
    \/ \E t \in Threads : TGetCheck(t)
    \/ \E t \in Threads : TGetPop(t)
    \/ \E t \in Threads, k \in Keys, v \in Values, ttl \in TTLs : TSetTime(t, k, v, ttl)
    \/ \E t \in Threads : TSetStore(t)
    \/ TickThreads

SpecThreads == Init /\ [][NextThreads]_vars

\* C10: the cache is safe under concurrent get and set on one key: every call takes
\* effect atomically, and in particular a get that saw an expired entry never removes
\* an unexpired entry stored by a concurrent set.
C10_GetNeverEvictsFreshEntry ==
    [][\A t \in Threads :
          (thr[t].pc = "get_pop" /\ thr'[t].pc = "idle" /\ thr[t].key \in DOMAIN store)
              => Expired(store[thr[t].key], now)]_vars

-----------------------------------------------------------------------------
(* The orchestrator with its two providers: Spec.                           *)
(* One find_by_city_and_radius call runs at a time; calls follow each other *)
(* on the same services and the same cache.                                 *)

MaxRequests == 2    \* calls made in one behaviour

SleepTenths == 11                       \* asyncio.sleep(1.1)
GEOCODE_CACHE_TTL_TENTHS  == 25920000   \* 60 * 60 * 24 * 30 seconds
OVERPASS_CACHE_TTL_TENTHS == 18000      \* 60 * 30 seconds
CITY_RADIUS_M == 50000

\* what the callers pass as city
Cities == { <<" ", "L", "x">>, <<" ", "\t">> }

\* Nominatim's answer to geolocator.geocode(city)
GeocodeLocation == [lat |-> 387167004, lon |-> -91393000, address |-> <<"L", "x", ",", " ", "P">>]
GeocodeAnswers == {"found", "none", "timeout"}

\* how long a call to geolocator.reverse may take, in tenths of a second
Latencies == {0, 11}

\* Nominatim's answers to geolocator.reverse(...): an address, None, or a timeout
ReverseAnswers == { [kind |-> "found", address |-> <<"R">>],
                    [kind |-> "none", address |-> <<>>],
                    [kind |-> "timeout", address |-> <<>>] }

\* raw OSM elements the Overpass provider may return
ElA      == [type |-> "node", id |-> 1, lat |-> 387000004, lon |-> -91000000,
             tags |-> [name |-> <<"A">>]]
ElA2     == [type |-> "node", id |-> 1, lat |-> 387000004, lon |-> -91000000,
             tags |-> [name |-> <<"A", "2">>]]
ElW      == [type |-> "way", id |-> 1, center |-> [lat |-> 387200000, lon |-> -91200000],
             tags |-> ("name" :> <<" ", "W">>) @@ ("addr:full" :> <<"X", " ">>)]
ElSame   == [type |-> "way", id |-> 4, center |-> [lat |-> 387000012, lon |-> -91000000],
             tags |-> [name |-> <<"B">>]]
ElBlank  == [type |-> "node", id |-> 2, lat |-> 387300000, lon |-> -91300000,
             tags |-> [name |-> <<" ", "\t">>]]
ElNoName == [type |-> "way", id |-> 2, center |-> [lat |-> 387400000, lon |-> -91400000]]
ElNoCenter == [type |-> "way", id |-> 3, lat |-> 387500000, lon |-> -91500000,
               tags |-> [name |-> <<"C">>]]
ElD      == [type |-> "node", id |-> 5, lat |-> 387700000, lon |-> -91700000,
             tags |-> [name |-> <<"R">>, opening_hours |-> <<"x">>]]
ElEmptyName == [type |-> "node", id |-> 6, lat |-> 387800000, lon |-> -91800000,
                tags |-> [name |-> <<>>]]
ElNoLat  == [type |-> "node", id |-> 3, lon |-> -91600000,
             center |-> [lat |-> 387600000, lon |-> -91600000],
             tags |-> [name |-> <<"C">>]]

\* what one POST to the Overpass provider may end in: a transport failure, or a body
Responses ==
    { [kind |-> "raise", err |-> [type |-> "httpx.TimeoutException", msg |-> ""],
       body |-> EmptyDict],
      [kind |-> "body", body |-> [remark |-> "runtime error", elements |-> <<ElA>>]],
      [kind |-> "body", body |-> [error |-> "bad request"]],
      [kind |-> "body", body |-> [remark |-> "", elements |-> <<>>]],
      [kind |-> "body", body |-> [elements |-> <<ElA>>]],
      [kind |-> "body", body |-> [elements |-> <<ElW, ElNoLat, ElA2, ElNoName, ElEmptyName,
                                                ElD, ElBlank, ElNoCenter, ElSame>>]] }

\* skatepark_service.py:76-95  the cache payload of the i-th query
Tags == <<"leisure=pitch;sport=skateboard", "leisure=skate_park", "leisure=skatepark">>

QueryPayload(i, city, ctr, radius_m) ==
    [city |-> Strip(Lower(city)), lat |-> Round6(ctr.lat), lon |-> Round6(ctr.lon),
     radius_m |-> radius_m, tag |-> Tags[i]]

QueryKey(i) == OverpassCacheKey(QueryPayload(i, req.city, center, req.radius_m))

\* the exception the call raises; cause is history: what made the call fail
Raise(e, cause) == [kind |-> "raise", err |-> e, cause |-> cause]

\* the call starts: asyncio.to_thread(geocode_city, city) runs up to the provider call;
\* geo_start is history: when geolocator.geocode was called, -1 if it was not
\* (geocoding_service.py:26-38)
StartRequest(city, radius_m, resolve) ==
    /\ pc = "idle"
    /\ nreq < MaxRequests
    /\ nreq' = nreq + 1
    /\ req' = [city |-> city, radius_m |-> radius_m, resolve_address |-> resolve,
               geo_start |-> IF ~CityIsBlank(city)
                                /\ CacheGetResult(store, GeocodeCacheKey(Strip(city)), now).isNone
                             THEN now ELSE -1]
    /\ tasks' = [i \in 1 .. 3 |-> NoTask]
    /\ all_elements' = <<>>
    /\ features' = <<>>
    /\ skateparks' = <<>>
    /\ idx' = 0
    /\ lookups' = <<>>
    /\ IF CityIsBlank(city)
       THEN /\ outcome' = Raise([type |-> "ValueError", msg |-> "city cannot be empty"],
                                  "blank_city")
            /\ pc' = "done"
            /\ center' = NoCenter
            /\ store' = store
       ELSE LET key == GeocodeCacheKey(Strip(city))
                cached == CacheGetResult(store, key, now)
            IN  /\ store' = CacheGetStore(store, key, now)
                /\ outcome' = [kind |-> "none"]
                /\ IF ~cached.isNone
                   THEN center' = cached.value /\ pc' = "fanout"
                   ELSE center' = NoCenter /\ pc' = "geocoding"
    /\ UNCHANGED <<now, lastOp, lastSet, thr, sideVars>>

\* geolocator.geocode answers (geocoding_service.py:40-56)
GeocodeReturn(answer) ==
    /\ pc = "geocoding"
    /\ IF answer = "found"
       THEN /\ store' = CacheSetStore(store, GeocodeCacheKey(Strip(req.city)),
                                      GeocodeLocation, GEOCODE_CACHE_TTL_TENTHS, now)
            /\ center' = GeocodeLocation
            /\ pc' = "fanout"
            /\ outcome' = outcome
       ELSE /\ outcome' = IF answer = "none"
                           THEN Raise([type |-> "ValueError",
                                       msg |-> "could not find location"], "no_match")
                           ELSE Raise([type |-> "GeocoderTimedOut", msg |-> ""],
                                      "geocoder_timeout")
            /\ pc' = "done"
            /\ UNCHANGED <<store, center>>
    /\ UNCHANGED <<now, lastOp, lastSet, thr, sideVars, req, tasks, all_elements, features,
                   skateparks, idx, nreq, lookups>>

\* asyncio.gather starts the three query coroutines; each runs up to its POST
\* (skatepark_service.py:97-99, overpass_service.py:46-52)
FanOut ==
    /\ pc = "fanout"
    /\ LET s1 == CacheGetStore(store, QueryKey(1), now)
           s2 == CacheGetStore(s1, QueryKey(2), now)
           s3 == CacheGetStore(s2, QueryKey(3), now)
           before == <<store, s1, s2>>
       IN  /\ store' = s3
           /\ tasks' = [i \in 1 .. 3 |->
                 LET cached == CacheGetResult(before[i], QueryKey(i), now) IN
                 IF CachedTruthy(cached)
                 THEN [st |-> "done", key |-> QueryKey(i), data |-> cached.value,
                       err |-> NoErr]
                 ELSE [st |-> "pending", key |-> QueryKey(i), data |-> EmptyDict,
                       err |-> NoErr]]
    /\ pc' = "gather"
    /\ UNCHANGED <<now, lastOp, lastSet, thr, sideVars, req, center, all_elements, features,
                   skateparks, idx, outcome, nreq, lookups>>

\* a join that collects exceptions instead of raising (return_exceptions=True)
GatherCollects(ts) == FALSE

\* asyncio.gather without return_exceptions: the first exception of a child is raised
\* in the awaiting call (skatepark_service.py:97-99)
GatherRaises(ts) == \E i \in 1 .. 3 : ts[i].st = "failed"

\* a join that cancels the coroutines still running when one has failed
JoinCancelsOthers(ts) ==
    [i \in 1 .. 3 |-> IF ts[i].st = "pending" THEN [ts[i] EXCEPT !.st = "cancelled"]
                      ELSE ts[i]]

\* asyncio.gather raising the first exception leaves the other coroutines running
\* (skatepark_service.py:97-99)
TasksAfterJoinFailure(ts) == ts

\* the provider answers the POST of the i-th query (overpass_service.py:52-68)
QueryRespond(i, resp) ==
    /\ tasks[i].st = "pending"
    /\ store' = QueryStore(store, tasks[i].key, resp, OVERPASS_CACHE_TTL_TENTHS, now)
    /\ LET answered == [tasks EXCEPT ![i] =
                           [st |-> IF QueryError(resp) = NoErr THEN "done" ELSE "failed",
                            key |-> @.key, data |-> resp.body, err |-> QueryError(resp)]]
       IN  tasks' = IF pc = "gather" /\ GatherRaises(answered)
                    THEN TasksAfterJoinFailure(answered)
                    ELSE answered
    /\ IF pc = "gather" /\ GatherRaises(tasks')
       THEN pc' = "done" /\ outcome' = Raise(tasks'[i].err,
                                           IF resp.kind = "raise" THEN "transport"
                                           ELSE "in_band")
       ELSE UNCHANGED <<pc, outcome>>
    /\ UNCHANGED <<now, lastOp, lastSet, thr, sideVars, req, center, all_elements, features,
                   skateparks, idx, nreq, lookups>>

\* a join that hands the results over in the order in which the coroutines finished
\* (as far as that order was recorded)
ResultsAsCompleted(ts) ==
    [r \in 1 .. 3 |-> LET i == IF r <= Len(order) THEN order[r] ELSE r IN
                      IF ts[i].st = "done" THEN ts[i].data ELSE EmptyDict]

\* skatepark_service.py:97-99  asyncio.gather returns the results in the order of the
\* awaitables passed to it
GatherResults(ts) ==
    [i \in 1 .. 3 |-> IF ts[i].st = "done" THEN ts[i].data ELSE EmptyDict]

\* gather returned the three results: merge, normalise, filter, and return the
\* result unless addresses are to be resolved (skatepark_service.py:101-133, 147-156)
MergeAndFilter ==
    /\ pc = "gather"
    /\ \A i \in 1 .. 3 : tasks[i].st # "pending"
    /\ LET results == GatherResults(tasks)
           els == MergeElements(results)
           fs == OsmElementsToGeojson(els)
           sk == BuildSkateparks(fs)
       IN  /\ all_elements' = els
           /\ features' = fs
           /\ skateparks' = sk
           /\ IF req.resolve_address
              THEN pc' = "enrich" /\ idx' = 1 /\ outcome' = outcome
              ELSE /\ pc' = "done"
                   /\ idx' = idx
                   /\ outcome' = [kind |-> "ok",
                                  result |-> AggregateResult(sk, req.city, center,
                                                             req.radius_m)]
    /\ UNCHANGED <<store, now, lastOp, lastSet, thr, sideVars, req, center, tasks, nreq, lookups>>


\* a loop that starts the next lookup without awaiting the one it started
PcAfterLookupStartNoAwait(hit) == "enrich"

\* skatepark_service.py:137  `await asyncio.to_thread(...)`: the loop goes on only
\* when the lookup has returned
PcAfterLookupStart(hit) == IF hit THEN "returned" ELSE "reverse"

\* skatepark_service.py:142-145  the loop body after the lookup returned
AfterLookup(sk, j, addr, from_cache) ==
    [sk |-> IF addr # <<>> THEN [sk EXCEPT ![j].address = Some(addr)] ELSE sk,
     pc |-> IF PauseAfter(from_cache, addr) THEN "sleep" ELSE "enrich"]

\* a lookup that caches whatever the provider answered
ReverseStoreAlways(s, key, answer, t) ==
    CacheSetStore(s, key, answer.address, GEOCODE_CACHE_TTL_TENTHS, t)

\* geocoding_service.py:78-86  only an address that was found is cached
ReverseStore(s, key, answer, t) ==
    IF answer.kind = "found"
    THEN CacheSetStore(s, key, answer.address, GEOCODE_CACHE_TTL_TENTHS, t)
    ELSE s

\* the loop reaches the next record without an address and calls reverse_geocode in a
\* worker thread, which runs up to the provider call; a cache hit returns at once
\* (skatepark_service.py:134-145, geocoding_service.py:68-77)
ReverseStart ==
    /\ pc = "enrich"
    /\ NextIdx(skateparks, idx) # 0
    /\ LET j == NextIdx(skateparks, idx)
           key == ReverseCacheKey(skateparks[j].lat, skateparks[j].lon)
           cached == CacheGetResult(store, key, now)
           hit == ~cached.isNone
       IN  /\ store' = CacheGetStore(store, key, now)
           /\ idx' = j + 1
           /\ lookups' = Append(lookups, [idx |-> j, start |-> now,
                                          end |-> IF hit THEN now ELSE -1,
                                          from_cache |-> hit,
                                          addr |-> IF hit THEN cached.value ELSE <<>>])
           /\ IF PcAfterLookupStart(hit) = "returned"
              THEN /\ skateparks' = AfterLookup(skateparks, j, cached.value, TRUE).sk
                   /\ pc' = AfterLookup(skateparks, j, cached.value, TRUE).pc
              ELSE /\ skateparks' = skateparks
                   /\ pc' = PcAfterLookupStart(hit)
    /\ UNCHANGED <<now, lastOp, lastSet, thr, sideVars, req, center, tasks, all_elements, features,
                   outcome, nreq>>

\* geolocator.reverse answers after d tenths of a second
\* (geocoding_service.py:77-87, skatepark_service.py:142-145)
ReverseReturn(answer, d) ==
    /\ pc = "reverse"
    /\ now' = now + d
    /\ LET n == Len(lookups)
           j == lookups[n].idx
           key == ReverseCacheKey(skateparks[j].lat, skateparks[j].lon)
       IN  /\ lookups' = [lookups EXCEPT ![n].end = now + d, ![n].addr = answer.address]
           /\ IF answer.kind = "timeout"
              THEN /\ outcome' = Raise([type |-> "GeocoderTimedOut", msg |-> ""],
                                                "geocoder_timeout")
                   /\ pc' = "done"
                   /\ UNCHANGED <<store, skateparks>>
              ELSE /\ store' = ReverseStore(store, key, answer, now + d)
                   /\ skateparks' = AfterLookup(skateparks, j, answer.address, FALSE).sk
                   /\ pc' = AfterLookup(skateparks, j, answer.address, FALSE).pc
                   /\ outcome' = outcome
    /\ UNCHANGED <<lastOp, lastSet, thr, sideVars, req, center, tasks, all_elements, features,
                   idx, nreq>>

\* asyncio.sleep(1.1) is over (skatepark_service.py:145)
SleepDone ==
    /\ pc = "sleep"
    /\ now' = now + SleepTenths
    /\ pc' = "enrich"
    /\ UNCHANGED <<store, lastOp, lastSet, thr, sideVars, req, center, tasks, all_elements,
                   features, skateparks, idx, outcome, nreq, lookups>>

\* the loop is exhausted: the result is returned (skatepark_service.py:147-156)
EnrichReturn ==
    /\ pc = "enrich"
    /\ NextIdx(skateparks, idx) = 0
    /\ pc' = "done"
    /\ outcome' = [kind |-> "ok",
                   result |-> AggregateResult(skateparks, req.city, center, req.radius_m)]
    /\ UNCHANGED <<store, now, lastOp, lastSet, thr, sideVars, req, center, tasks, all_elements,
                   features, skateparks, idx, nreq, lookups>>

\* the time between two calls: none, or one tick more than the Overpass TTL
IdleJumps == {0, OVERPASS_CACHE_TTL_TENTHS + 1}

\* the caller has the outcome and every query coroutine has ended: the frame of the
\* call is gone, and d tenths of a second pass before the next call
IdleWait(d) ==
    /\ pc = "done"
    /\ nreq < MaxRequests
    /\ \A i \in 1 .. 3 : tasks[i].st # "pending"
    /\ pc' = "idle"
    /\ now' = now + d
    /\ req' = NoReq
    /\ center' = NoCenter
    /\ tasks' = [i \in 1 .. 3 |-> NoTask]
    /\ all_elements' = <<>>
    /\ features' = <<>>
    /\ skateparks' = <<>>
    /\ idx' = 0
    /\ outcome' = [kind |-> "none"]
    /\ lookups' = <<>>
    /\ UNCHANGED <<store, lastOp, lastSet, thr, sideVars, nreq>>

Next ==
    \/ \E city \in Cities, resolve \in BOOLEAN : StartRequest(city, CITY_RADIUS_M, resolve)
    \/ \E answer \in GeocodeAnswers : GeocodeReturn(answer)
    \/ FanOut
    \/ \E i \in 1 .. 3, resp \in Responses : QueryRespond(i, resp)
    \/ MergeAndFilter
    \/ ReverseStart
    \/ \E answer \in ReverseAnswers, d \in Latencies : ReverseReturn(answer, d)
    \/ SleepDone
    \/ EnrichReturn
    \/ \E d \in IdleJumps : IdleWait(d)

Spec == Init /\ [][Next]_vars

-----------------------------------------------------------------------------
(* Claims checked under Spec *)

\* the statement side of the claims: what the spec calls a usable coordinate and a name
HasCoord(d) == "lat" \in DOMAIN d /\ "lon" \in DOMAIN d
Usable(el) ==
    IF el["type"] = "node" THEN HasCoord(el)
    ELSE "center" \in DOMAIN el /\ HasCoord(el["center"])
Named(el) ==
    /\ "tags" \in DOMAIN el
    /\ "name" \in DOMAIN el["tags"]
    /\ \E k \in 1 .. Len(el["tags"]["name"]) : el["tags"]["name"][k] \notin Whitespace
ElementKey(el) == <<el["type"], el["id"]>>
ResultElements(i) == DictGet(tasks[i].data, "elements", <<>>)
KeysReturned(i) == {ElementKey(ResultElements(i)[k]) : k \in 1 .. Len(ResultElements(i))}
Returned == outcome.kind = "ok"

\* C1: the three sub-queries are joined all-or-nothing: a result is returned only
\* when all three succeeded, and as soon as one has failed the call has ended with the
\* failure of a failed sub-query, whatever the other two returned.
C1_AllOrNothing ==
    /\ Returned => \A i \in 1 .. 3 : tasks[i].st = "done"
    /\ (\E i \in 1 .. 3 : tasks[i].st = "failed") =>
          /\ pc = "done"
          /\ outcome.kind = "raise"
          /\ \E i \in 1 .. 3 : tasks[i].st = "failed" /\ outcome.err = tasks[i].err

\* C1's case: one sub-query failed in band, the two others returned elements
C1_Witness ==
    /\ outcome.kind = "raise"
    /\ \E i \in 1 .. 3 :
          /\ tasks[i].st = "failed"
          /\ outcome.err = tasks[i].err
          /\ \A j \in (1 .. 3) \ {i} : tasks[j].st = "done" /\ ResultElements(j) # <<>>

\* C2: the records of one result come from pairwise different (kind, id) pairs; a
\* (kind, id) present in two or three result sets yields at most one record, and
\* exactly one when its occurrences have a coordinate and a name.
C2_DedupByKindAndId ==
    Returned =>
        LET sk == outcome.result.skateparks
            all == KeysReturned(1) \cup KeysReturned(2) \cup KeysReturned(3)
            Occ(key) == {el \in UNION {{ResultElements(i)[k] : k \in 1 .. Len(ResultElements(i))}
                                       : i \in 1 .. 3} : ElementKey(el) = key}
        IN  /\ \A a, b \in 1 .. Len(sk) : a # b => sk[a].origin # sk[b].origin
            /\ \A a \in 1 .. Len(sk) : sk[a].origin \in all
            /\ \A key \in all :
                  (\A el \in Occ(key) : Usable(el) /\ Named(el)) =>
                      Cardinality({a \in 1 .. Len(sk) : sk[a].origin = key}) = 1

\* C2's case: a (kind, id) came back from all three queries, in two versions
C2_Witness ==
    /\ Returned
    /\ \E key \in KeysReturned(1) \cap KeysReturned(2) \cap KeysReturned(3) :
          /\ Cardinality({a \in 1 .. Len(outcome.result.skateparks) :
                             outcome.result.skateparks[a].origin = key}) = 1
          /\ ResultElements(1) # ResultElements(2)

\* C3: when the provider's body carries a populated remark or error, the query fails
\* with RuntimeError (the code's UpstreamError), the cache is left as it was, and a
\* query on the same key issued next finds nothing usable in the cache.
C3_InBandErrorNotCached ==
    [][\A i \in 1 .. 3 :
          (tasks[i].st = "pending" /\ tasks'[i].st # "pending" /\ InBandError(tasks'[i].data))
          => /\ tasks'[i].st = "failed"
             /\ tasks'[i].err.type = "RuntimeError"
             /\ store' = store
             /\ ~CachedTruthy(CacheGetResult(store', tasks[i].key, now'))]_vars

\* C3's case: in the second call a sub-query was sent to the provider again and failed
\* in band, its key holds no entry, while another sub-query's body was cached
C3_Witness ==
    /\ nreq = 2
    /\ \E i, j \in 1 .. 3 :
          /\ tasks[i].st = "failed"
          /\ InBandError(tasks[i].data)
          /\ tasks[i].key \notin DOMAIN store
          /\ tasks[j].st = "done"
          /\ tasks[j].key \in DOMAIN store

RECURSIVE LatencySum(_)
LatencySum(log) ==
    IF log = <<>> THEN 0 ELSE (Head(log).end - Head(log).start) + LatencySum(Tail(log))
Misses(log) == Cardinality({k \in 1 .. Len(log) : ~log[k].from_cache})

\* C4: every lookup that called the provider is followed by a pause of 1.1 time units
\* before the next lookup starts and a lookup answered from the cache by none; so the
\* enrichment lasts the provider calls plus 1.1 per cache miss: at least 1.1 * (N - 1)
\* for N lookups that all miss, and less pause than 1.1 * N when some lookup hits.
C4_PauseAfterEveryMiss ==
    /\ \A k \in 1 .. Len(lookups) - 1 :
          /\ lookups[k].end # -1
          /\ ~lookups[k].from_cache => lookups[k + 1].start >= lookups[k].end + SleepTenths
          /\ lookups[k].from_cache => lookups[k + 1].start = lookups[k].end
    /\ (pc = "done" /\ Returned /\ lookups # <<>>) =>
          LET N == Len(lookups)
              elapsed == now - lookups[1].start
          IN  /\ elapsed = LatencySum(lookups) + SleepTenths * Misses(lookups)
              /\ Misses(lookups) = N => elapsed >= SleepTenths * (N - 1)
              /\ Misses(lookups) < N => elapsed - LatencySum(lookups) < SleepTenths * N

\* C4's case: three lookups returned, a miss that brought no address, a miss that
\* brought one, and a hit
C4_Witness ==
    /\ pc = "done" /\ Returned
    /\ Len(lookups) = 3
    /\ \E k \in 1 .. 3 : lookups[k].from_cache
    /\ \E k \in 1 .. 3 : ~lookups[k].from_cache /\ skateparks[lookups[k].idx].address.isNone
    /\ \E k \in 1 .. 3 : ~lookups[k].from_cache /\ ~skateparks[lookups[k].idx].address.isNone

\* C5: the reverse lookups of one call are strictly sequential and in record order: at
\* most one is in flight, and a lookup starts only after the one before it returned.
C5_SequentialInOrder ==
    /\ Cardinality({k \in 1 .. Len(lookups) : lookups[k].end = -1}) <= 1
    /\ \A k \in 1 .. Len(lookups) - 1 :
          /\ lookups[k].idx < lookups[k + 1].idx
          /\ lookups[k].end # -1
          /\ lookups[k].end <= lookups[k + 1].start

\* C5's case: the third lookup of a call is in flight
C5_Witness ==
    /\ pc = "reverse"
    /\ Len(lookups) = 3
    /\ lookups[3].end = -1

\* C6: every record of a result has a non-empty name, no record comes from an element
\* whose name tag is missing, empty or whitespace-only, and metadata.total counts the
\* named elements with a coordinate only.
C6_NamedOnly ==
    Returned =>
        LET sk == outcome.result.skateparks IN
        /\ \A a \in 1 .. Len(sk) : sk[a].name # <<>> /\ Strip(sk[a].name) # <<>>
        /\ \A a \in 1 .. Len(sk) :
              \E k \in 1 .. Len(all_elements) :
                  ElementKey(all_elements[k]) = sk[a].origin /\ Named(all_elements[k])
        /\ outcome.result.metadata.total =
              Cardinality({k \in 1 .. Len(all_elements) :
                              Named(all_elements[k]) /\ Usable(all_elements[k])})

\* C6's case: a whitespace-only name, an empty name and a missing name, all three
\* with coordinates
C6_Witness ==
    /\ Returned
    /\ outcome.result.metadata.total >= 1
    /\ \E k \in 1 .. Len(all_elements) :
          /\ Usable(all_elements[k])
          /\ "tags" \in DOMAIN all_elements[k]
          /\ "name" \in DOMAIN all_elements[k]["tags"]
          /\ all_elements[k]["tags"]["name"] # <<>>
          /\ ~Named(all_elements[k])
    /\ \E k \in 1 .. Len(all_elements) :
          /\ Usable(all_elements[k])
          /\ "tags" \in DOMAIN all_elements[k]
          /\ "name" \in DOMAIN all_elements[k]["tags"]
          /\ all_elements[k]["tags"]["name"] = <<>>
    /\ \E k \in 1 .. Len(all_elements) :
          Usable(all_elements[k]) /\ "tags" \notin DOMAIN all_elements[k]

\* C7: a point takes its direct coordinate, an area its centroid; an element without a
\* usable coordinate is dropped without failing the call; every other element is kept,
\* in input order.
C7_Normalization ==
    LET kept == SelectSeq(all_elements, Usable) IN
    /\ Len(features) = Len(kept)
    /\ \A k \in 1 .. Len(kept) :
          /\ features[k].id = ElementKey(kept[k])
          /\ features[k].geometry.coordinates =
                IF kept[k]["type"] = "node" THEN <<kept[k]["lon"], kept[k]["lat"]>>
                ELSE <<kept[k]["center"]["lon"], kept[k]["center"]["lat"]>>
    /\ (pc = "done" /\ ~req.resolve_address /\ \A i \in 1 .. 3 : tasks[i].st = "done")
          => Returned

\* C7's case: a result built from points and areas of which some were dropped
C7_Witness ==
    /\ Returned
    /\ Len(features) < Len(all_elements)
    /\ \E k \in 1 .. Len(all_elements) :
          all_elements[k]["type"] = "node" /\ ~Usable(all_elements[k])
    /\ \E k \in 1 .. Len(all_elements) :
          all_elements[k]["type"] # "node" /\ ~Usable(all_elements[k])
    /\ \E k \in 1 .. Len(features) : features[k].properties.osm_type = "node"
    /\ \E k \in 1 .. Len(features) : features[k].properties.osm_type = "way"

-----------------------------------------------------------------------------
(* The derivation of cache keys: SpecKeys.                                  *)
(* Two requests are drawn and the key of each is derived as the services    *)
(* derive it.                                                               *)

MaxCityLen == 2     \* longest city string drawn

CityChars == {"L", "l", " "}
CityStrings == UNION { [1 .. n -> CityChars] : n \in 0 .. MaxCityLen }

\* centers as the geocoder returns them, and coordinates as records carry them
\* (skatepark_service.py:127-128: rounded to 6 decimals)
CenterLats == {387167001, 387167004, 387168000}
CenterLon  == -91393000
RecordLats == {387000000, 387000010, 387000100}
RecordLons == {-91000000, -91000100}
Radii == {CITY_RADIUS_M, 1000}

KeyRequests ==
    [kind : {"geocode"}, city : CityStrings]
    \cup [kind : {"reverse"}, lat : RecordLats, lon : RecordLons]
    \cup [kind : {"query"}, city : CityStrings, lat : CenterLats, lon : {CenterLon},
          radius_m : Radii, tag : 1 .. 3]

\* the key under which the services look a request up; a blank city is refused before
\* any key is derived (geocoding_service.py:26-30, 64; skatepark_service.py:76-95)
KeyOf(r) ==
    CASE r.kind = "geocode" ->
            IF CityIsBlank(r.city) THEN NoneResult
            ELSE Some(GeocodeCacheKey(Strip(r.city)))
      [] r.kind = "reverse" -> Some(ReverseCacheKey(r.lat, r.lon))
      [] r.kind = "query" ->
            IF CityIsBlank(r.city) THEN NoneResult
            ELSE Some(OverpassCacheKey(QueryPayload(r.tag, r.city,
                                                    [lat |-> r.lat, lon |-> r.lon],
                                                    r.radius_m)))

ChooseRequests ==
    /\ kin = <<NoKeyRequest, NoKeyRequest>>
    /\ \E a, b \in KeyRequests : kin' = <<a, b>>
    /\ UNCHANGED <<store, now, auxVars, orchVars, kout, qry, order>>

DeriveKeys ==
    /\ kin # <<NoKeyRequest, NoKeyRequest>>
    /\ kout = <<NoneResult, NoneResult>>
    /\ kout' = <<KeyOf(kin[1]), KeyOf(kin[2])>>
    /\ UNCHANGED <<store, now, auxVars, orchVars, kin, qry, order>>

NextKeys ==
    \/ ChooseRequests
    \/ DeriveKeys

SpecKeys == Init /\ [][NextKeys]_vars

\* two city strings that differ at most in letter case and in leading or trailing
\* whitespace
CasePairs == { <<"L", "l">> }
SameLetter(x, y) == x = y \/ <<x, y>> \in CasePairs \/ <<y, x>> \in CasePairs
Ink(c) == {i \in 1 .. Len(c) : c[i] \notin {" ", "\t"}}
Core(c) ==
    IF Ink(c) = {} THEN <<>>
    ELSE LET first == CHOOSE i \in Ink(c) : \A j \in Ink(c) : i <= j
             last  == CHOOSE i \in Ink(c) : \A j \in Ink(c) : j <= i
         IN  [i \in 1 .. last - first + 1 |-> c[first + i - 1]]
SameCity(c1, c2) ==
    /\ Len(Core(c1)) = Len(Core(c2))
    /\ \A i \in 1 .. Len(Core(c1)) : SameLetter(Core(c1)[i], Core(c2)[i])

KeysDerived == kin # <<NoKeyRequest, NoKeyRequest>> /\ kout[1] = KeyOf(kin[1]) /\ kout[2] = KeyOf(kin[2])
BothKind(kd) == kin[1].kind = kd /\ kin[2].kind = kd

\* C11: two city strings that differ only in letter case or in leading/trailing
\* whitespace give the same geocode key, and the same query key for each of the three
\* tags when center and radius are the same.
C11_CityVariantsShareKeys ==
    KeysDerived =>
        /\ (BothKind("geocode") /\ SameCity(kin[1].city, kin[2].city)) => kout[1] = kout[2]
        /\ (/\ BothKind("query")
            /\ SameCity(kin[1].city, kin[2].city)
            /\ kin[1].lat = kin[2].lat /\ kin[1].lon = kin[2].lon
            /\ kin[1].radius_m = kin[2].radius_m
            /\ kin[1].tag = kin[2].tag) => kout[1] = kout[2]

\* C11's case: two query requests whose cities differ in case and in padding got one key
C11_Witness ==
    /\ KeysDerived
    /\ BothKind("query")
    /\ ~kout[1].isNone
    /\ kout[1] = kout[2]
    /\ Len(kin[1].city) # Len(kin[2].city)
    /\ Core(kin[1].city) # Core(kin[2].city)

\* the requests of kin are logically distinct, coordinates compared as given
DistinctAsGiven(a, b) ==
    \/ a.kind # b.kind
    \/ /\ a.kind = "query" /\ b.kind = "query"
       /\ \/ a.tag # b.tag
          \/ ~SameCity(a.city, b.city)
          \/ a.lat # b.lat \/ a.lon # b.lon
          \/ a.radius_m # b.radius_m
    \/ /\ a.kind = "reverse" /\ b.kind = "reverse"
       /\ (a.lat # b.lat \/ a.lon # b.lon)

\* the requests of kin are logically distinct, coordinates compared at the precision
\* the keys keep: 6 decimals for a center, 5 decimals for a record
DistinctAsRounded(a, b) ==
    \/ a.kind # b.kind
    \/ /\ a.kind = "query" /\ b.kind = "query"
       /\ \/ a.tag # b.tag
          \/ ~SameCity(a.city, b.city)
          \/ RoundTo(a.lat, 10) # RoundTo(b.lat, 10) \/ RoundTo(a.lon, 10) # RoundTo(b.lon, 10)
          \/ a.radius_m # b.radius_m
    \/ /\ a.kind = "reverse" /\ b.kind = "reverse"
       /\ (RoundTo(a.lat, 100) # RoundTo(b.lat, 100) \/ RoundTo(a.lon, 100) # RoundTo(b.lon, 100))

BothHaveKeys == KeysDerived /\ ~kout[1].isNone /\ ~kout[2].isNone

\* C12 as stated: logically distinct requests (the three tag sub-queries, queries that
\* differ in city, center or radius, a forward geocode, a reverse geocode and a query,
\* reverse lookups for records with different coordinates) never share a cache key.
C12_DistinctRequestsDistinctKeys ==
    (BothHaveKeys /\ DistinctAsGiven(kin[1], kin[2])) => kout[1] # kout[2]

\* C12 as the code has it: the same, with a center compared after rounding to 6
\* decimals and record coordinates compared after rounding to 5 decimals.
C12_DistinctAfterRounding ==
    (BothHaveKeys /\ DistinctAsRounded(kin[1], kin[2])) => kout[1] # kout[2]

\* C12's case: two reverse lookups whose coordinates differ after rounding to 5
\* decimals in the longitude only got different keys
C12_Witness ==
    /\ BothHaveKeys
    /\ BothKind("reverse")
    /\ kin[1].lat # kin[2].lat
    /\ RoundTo(kin[1].lat, 100) = RoundTo(kin[2].lat, 100)
    /\ kin[1].lon # kin[2].lon
    /\ kout[1] # kout[2]

-----------------------------------------------------------------------------
(* Further claims checked under Spec *)

BlankCity(c) == Ink(c) = {}

\* C13: a call whose city is empty or blank after trimming fails with the invalid-input
\* error ("city cannot be empty") before anything else happens: the geocoding provider
\* is not called, no query is issued and the cache is left unchanged.
C13_BlankCityRejectedFirst ==
    [][(pc = "idle" /\ pc' # "idle" /\ BlankCity(req'.city)) =>
          /\ pc' = "done"
          /\ outcome'.kind = "raise"
          /\ outcome'.err = [type |-> "ValueError", msg |-> "city cannot be empty"]
          /\ \A i \in 1 .. 3 : tasks'[i].st = "none"
          /\ store' = store]_vars

\* C13's case: a call with a blank, non-empty city failed while the cache held entries
C13_Witness ==
    /\ pc = "done"
    /\ req.city # <<>> /\ BlankCity(req.city)
    /\ outcome.kind = "raise"
    /\ outcome.err.msg = "city cannot be empty"
    /\ store # EmptyDict

\* the taxonomy kind a caller can read off the class of the exception it receives
KindOfClass(type) ==
    CASE type = "ValueError" -> "InvalidInput"
      [] type = "GeocoderTimedOut" -> "ServiceUnavailable"
      [] type = "httpx.TimeoutException" -> "ServiceUnavailable"
      [] type = "RuntimeError" -> "UpstreamError"
      [] OTHER -> "none"

\* the taxonomy kind that matches a cause
KindOfCause(cause) ==
    CASE cause = "blank_city" -> "InvalidInput"
      [] cause = "no_match" -> "NotFound"
      [] cause \in {"geocoder_timeout", "transport"} -> "ServiceUnavailable"
      [] cause = "in_band" -> "UpstreamError"

\* C14: every failure reaches the caller as the one kind of the taxonomy that matches
\* its cause, the four kinds told apart: InvalidInput for a blank city, NotFound for
\* no match, ServiceUnavailable for a timeout or connection failure against either
\* provider, UpstreamError for an in-band provider error.
C14_FailureKindMatchesCause ==
    outcome.kind = "raise" => KindOfClass(outcome.err.type) = KindOfCause(outcome.cause)

\* C15: a negative geocoding result is never cached.  A reverse lookup for which the
\* provider has no address returns (none, not from cache) and leaves the cache
\* unchanged; a forward geocode with no match fails and stores nothing; in both cases
\* the next identical lookup finds no entry and calls the provider again.
C15_NegativeResultNotCached ==
    [][/\ (/\ pc = "reverse" /\ pc' \in {"sleep", "enrich"}
           /\ lookups'[Len(lookups')].addr = <<>>) =>
              LET n == Len(lookups')
                  j == lookups'[n].idx
                  key == ReverseCacheKey(skateparks[j].lat, skateparks[j].lon)
              IN  /\ store' = store
                  /\ ~lookups'[n].from_cache
                  /\ skateparks'[j].address.isNone
                  /\ CacheGetResult(store', key, now').isNone
       /\ (pc = "geocoding" /\ pc' = "done" /\ outcome'.cause = "no_match") =>
              /\ store' = store
              /\ CacheGetResult(store', GeocodeCacheKey(Strip(req.city)), now').isNone]_vars

\* C15's case: the provider had no address for the second record looked up, after an
\* address found for another record had been cached; the cache holds nothing for it
C15_Witness ==
    /\ pc = "sleep"
    /\ Len(lookups) >= 2
    /\ LET n == Len(lookups)
           j == lookups[n].idx
       IN  /\ lookups[n].addr = <<>> /\ ~lookups[n].from_cache
           /\ ReverseCacheKey(skateparks[j].lat, skateparks[j].lon) \notin DOMAIN store
           /\ \E k \in DOMAIN store : k[1] = "reverse"

\* the three queries returned the same single named point element
SameSinglePoint ==
    /\ \A i \in 1 .. 3 : tasks[i].st = "done" /\ Len(ResultElements(i)) = 1
    /\ \A i \in 2 .. 3 : ResultElements(i) = ResultElements(1)
    /\ ResultElements(1)[1]["type"] = "node"
    /\ Usable(ResultElements(1)[1]) /\ Named(ResultElements(1)[1])

\* C16: in a returned result metadata.total is the number of records, metadata.city
\* is the city string as it was passed, and center, address and radius are the
\* geocoded center, its resolved address and the requested radius; when all three
\* queries return the same single named point element the result has one record and
\* total is 1.
C16_MetadataDescribesResult ==
    Returned =>
        LET r == outcome.result IN
        /\ r.metadata.total = Len(r.skateparks)
        /\ r.metadata.city = req.city
        /\ r.metadata.center = [lat |-> GeocodeLocation.lat, lon |-> GeocodeLocation.lon]
        /\ r.metadata.address = GeocodeLocation.address
        /\ r.metadata.radius_m = req.radius_m
        /\ SameSinglePoint => (Len(r.skateparks) = 1 /\ r.metadata.total = 1)

\* C16's case: the three queries returned the same single point for a city passed
\* with padding and capitals, and the result has one record
C16_Witness ==
    /\ Returned
    /\ SameSinglePoint
    /\ outcome.result.metadata.total = 1
    /\ outcome.result.metadata.city # Strip(Lower(req.city))
    /\ outcome.result.metadata.center.lat # Round6(GeocodeLocation.lat)

\* the cache holds an unexpired entry under k
Live(k) == k \in DOMAIN store /\ now <= store[k].expires_at

\* C17: a query is cache-first: when the cache holds an unexpired entry under the
\* query's key, whatever element set the entry holds, an empty one included, the query
\* returns the stored value and makes no external call; the external call is made
\* only on a miss.
C17_QueryIsCacheFirst ==
    [][(pc = "fanout" /\ pc' = "gather") =>
          \A i \in 1 .. 3 :
             LET k == QueryKey(i) IN
             /\ Live(k) => (tasks'[i].st = "done" /\ tasks'[i].data = store[k].value)
             /\ ~Live(k) => tasks'[i].st = "pending"]_vars

\* C17's case: in a later call the three queries were answered from entries stored
\* before the call began, one of them holding an empty element set
C17_Witness ==
    /\ pc = "gather"
    /\ \A i \in 1 .. 3 :
          /\ tasks[i].st = "done"
          /\ tasks[i].key \in DOMAIN store
          /\ store[tasks[i].key].expires_at < now + OVERPASS_CACHE_TTL_TENTHS
          /\ tasks[i].data = store[tasks[i].key].value
    /\ \E i \in 1 .. 3 : DictGet(tasks[i].data, "elements", <<"x">>) = <<>>
    /\ \E i \in 1 .. 3 : DictGet(tasks[i].data, "elements", <<>>) # <<>>

-----------------------------------------------------------------------------
(* Concurrent callers of OverpassService.query on one key: SpecConc.        *)
(* The coroutines run on one event loop: a coroutine runs without           *)
(* interruption up to its `await client.post(...)` and again from the       *)
(* provider's answer to its return.                                         *)

\* the key all callers ask for: the same city, center, radius and tag
ConcKey == OverpassCacheKey(QueryPayload(2, <<" ", "L", "x">>, GeocodeLocation, CITY_RADIUS_M))

ConcJumps == {1, OVERPASS_CACHE_TTL_TENTHS + 1}

\* the coroutine starts: cache first, the POST on a miss (overpass_service.py:46-52)
QueryCall(c) ==
    /\ qry[c].st = "idle"
    /\ LET cached == CacheGetResult(store, ConcKey, now) IN
       /\ store' = CacheGetStore(store, ConcKey, now)
       /\ qry' = [qry EXCEPT ![c] =
                     IF CachedTruthy(cached)
                     THEN [st |-> "done", data |-> cached.value, err |-> NoErr]
                     ELSE [st |-> "posting", data |-> EmptyDict, err |-> NoErr]]
    /\ UNCHANGED <<now, auxVars, orchVars, kin, kout, order>>

\* the provider answers the coroutine's POST (overpass_service.py:52-68)
QueryAnswer(c, resp) ==
    /\ qry[c].st = "posting"
    /\ store' = QueryStore(store, ConcKey, resp, OVERPASS_CACHE_TTL_TENTHS, now)
    /\ qry' = [qry EXCEPT ![c] =
                  [st |-> IF QueryError(resp) = NoErr THEN "done" ELSE "failed",
                   data |-> resp.body, err |-> QueryError(resp)]]
    /\ UNCHANGED <<now, auxVars, orchVars, kin, kout, order>>

\* the coroutine's caller has taken the result; the caller may call again
QueryForget(c) ==
    /\ qry[c].st \in {"done", "failed"}
    /\ qry' = [qry EXCEPT ![c] = IdleQry]
    /\ UNCHANGED <<store, now, auxVars, orchVars, kin, kout, order>>

\* time passes: a tenth of a second, or more than the TTL of a query result
TickConc(d) ==
    /\ (now + d) % (OVERPASS_CACHE_TTL_TENTHS + 1) <= MaxTime
    /\ now + d <= OVERPASS_CACHE_TTL_TENTHS + 1 + MaxTime
    /\ now' = now + d
    /\ UNCHANGED <<store, auxVars, orchVars, sideVars>>

NextConc ==
    \/ \E c \in Callers : QueryCall(c)
    \/ \E c \in Callers, resp \in Responses : QueryAnswer(c, resp)
    \/ \E c \in Callers : QueryForget(c)
    \/ \E d \in ConcJumps : TickConc(d)

SpecConc == Init /\ [][NextConc]_vars

\* C18: a cache entry is created only by a successful external call, is immutable once
\* stored (neither its value nor its expiry changes while it is unexpired, also when
\* several requests for the same key run concurrently), and leaves the store only
\* through the lazy eviction done by a get that observes it expired.
C18_EntryImmutableUntilEvicted ==
    [][\A k \in DOMAIN store \cup DOMAIN store' :
          /\ (k \notin DOMAIN store) =>
                \E c \in Callers :
                   /\ qry[c].st = "posting" /\ qry'[c].st = "done"
                   /\ store'[k].value = qry'[c].data
          /\ (k \in DOMAIN store /\ now <= store[k].expires_at) =>
                (k \in DOMAIN store' /\ store'[k] = store[k])
          /\ (k \in DOMAIN store /\ k \notin DOMAIN store') =>
                /\ now > store[k].expires_at
                /\ \E c \in Callers : qry[c].st = "idle" /\ qry'[c].st = "posting"]_vars

-----------------------------------------------------------------------------
(* Claims on the join and on the enrichment, checked under Spec *)

\* C19: when one of the three concurrent sub-queries fails, the join fails at that
\* first failure without waiting for the others; the sub-queries already issued are
\* not cancelled and run to completion (a body that arrives is cached as usual), and
\* their results are discarded: the call's outcome stays the failure.
C19_JoinFailsFastKeepsOthersRunning ==
    [][/\ (pc = "gather" /\ \E i \in 1 .. 3 : tasks[i].st = "pending" /\ tasks'[i].st = "failed") =>
             /\ pc' = "done"
             /\ outcome'.kind = "raise"
             /\ \A j \in 1 .. 3 :
                   (tasks[j].st = "pending" /\ tasks'[j].st # "failed") => tasks'[j] = tasks[j]
       /\ (pc = "done" /\ outcome.kind = "raise" /\ pc' = "done") =>
             /\ outcome' = outcome
             /\ \A j \in 1 .. 3 :
                   /\ tasks[j].st = "pending" => tasks'[j].st \in {"pending", "done", "failed"}
                   /\ (tasks[j].st = "pending" /\ tasks'[j].st = "done") =>
                         /\ tasks[j].key \in DOMAIN store'
                         /\ store'[tasks[j].key].value = tasks'[j].data]_vars

\* C19's case: the call has failed with one sub-query; a second one answered and its
\* body is in the cache; the third is still running
C19_Witness ==
    /\ pc = "done"
    /\ outcome.kind = "raise"
    /\ \E i, j, k \in 1 .. 3 :
          /\ tasks[i].st = "failed" /\ outcome.err = tasks[i].err
          /\ tasks[j].st = "done"
          /\ tasks[j].key \in DOMAIN store /\ store[tasks[j].key].value = tasks[j].data
          /\ tasks[k].st = "pending"

\* the records as they were built, before any enrichment
BuiltRecords == BuildSkateparks(features)

\* C20: enrichment touches only records that lack an address: a record whose address
\* was built from its tags gets no reverse lookup and keeps that address; with
\* resolve_address unset there is no lookup at all; a lookup that brings no address
\* leaves the record's address absent; and enrichment never adds, removes or reorders
\* records.
C20_EnrichmentOnlyFillsMissingAddress ==
    LET built == BuiltRecords IN
    /\ Len(skateparks) = Len(built)
    /\ \A j \in 1 .. Len(skateparks) :
          /\ [skateparks[j] EXCEPT !.address = NoneResult]
                = [built[j] EXCEPT !.address = NoneResult]
          /\ ~built[j].address.isNone =>
                /\ skateparks[j].address = built[j].address
                /\ \A k \in 1 .. Len(lookups) : lookups[k].idx # j
    /\ ~req.resolve_address => (lookups = <<>> /\ skateparks = built)
    /\ \A k \in 1 .. Len(lookups) :
          /\ lookups[k].idx \in 1 .. Len(skateparks)
          /\ (lookups[k].end # -1 /\ lookups[k].addr = <<>>) =>
                skateparks[lookups[k].idx].address.isNone
          /\ lookups[k].addr # <<>> =>
                skateparks[lookups[k].idx].address = Some(lookups[k].addr)

\* C20's case: a returned result with a record that kept its tag-built address, a
\* record whose lookup brought nothing and a record whose lookup brought an address
C20_Witness ==
    /\ Returned
    /\ req.resolve_address
    /\ LET built == BuiltRecords IN
       \E j \in 1 .. Len(skateparks) :
          ~built[j].address.isNone /\ skateparks[j].address = built[j].address
    /\ \E k \in 1 .. Len(lookups) :
          lookups[k].addr = <<>> /\ skateparks[lookups[k].idx].address.isNone
    /\ \E k \in 1 .. Len(lookups) :
          lookups[k].addr # <<>> /\ ~skateparks[lookups[k].idx].address.isNone

-----------------------------------------------------------------------------
(* Claims on the pacing of the geocoding provider and on the record order,  *)
(* checked under Spec                                                       *)

PolicyTenths == 10      \* Nominatim: 1 request per second

\* the times at which the call in progress called the geocoding provider: the forward
\* geocode if it missed the cache, then the reverse lookups that missed it
ProviderCallStarts ==
    (IF req.geo_start # -1 THEN <<req.geo_start>> ELSE <<>>)
        \o [k \in 1 .. Misses(lookups) |->
               LET m == {i \in 1 .. Len(lookups) : ~lookups[i].from_cache}
                   i == CHOOSE i \in m : Cardinality({h \in m : h <= i}) = k
               IN  lookups[i].start]

\* C21: the geocoding provider's 1-request-per-second policy is respected: any two
\* consecutive calls that reach the provider, forward or reverse, start at least one
\* second apart, the forward call of a request and its first reverse call included.
C21_GeocoderCallsOneSecondApart ==
    \A k \in 1 .. Len(ProviderCallStarts) - 1 :
        ProviderCallStarts[k + 1] - ProviderCallStarts[k] >= PolicyTenths

-----------------------------------------------------------------------------
(* The join of the three queries and the merge of their results, with the   *)
(* order in which the coroutines finish recorded: SpecMerge.                *)
(* The city is already geocoded and the cache holds nothing for the queries. *)

MergeReq == [city |-> <<" ", "L", "x">>, radius_m |-> CITY_RADIUS_M,
             resolve_address |-> FALSE, geo_start |-> -1]

\* asyncio.gather starts the three coroutines; each misses the cache and POSTs
\* (skatepark_service.py:76-99, overpass_service.py:46-52)
JoinStart ==
    /\ pc = "idle"
    /\ req = NoReq
    /\ req' = MergeReq
    /\ center' = GeocodeLocation
    /\ tasks' = [i \in 1 .. 3 |->
                    [st |-> "pending",
                     key |-> OverpassCacheKey(QueryPayload(i, MergeReq.city, GeocodeLocation,
                                                           MergeReq.radius_m)),
                     data |-> EmptyDict, err |-> NoErr]]
    /\ pc' = "gather"
    /\ UNCHANGED <<store, now, auxVars, all_elements, features, skateparks, idx, outcome,
                   nreq, lookups, sideVars>>

\* the provider answers the POST of the i-th query, in whatever order
\* (overpass_service.py:52-68, skatepark_service.py:97-99)
JoinAnswer(i, resp) ==
    /\ tasks[i].st = "pending"
    /\ order' = Append(order, i)
    /\ store' = QueryStore(store, tasks[i].key, resp, OVERPASS_CACHE_TTL_TENTHS, now)
    /\ LET answered == [tasks EXCEPT ![i] =
                           [st |-> IF QueryError(resp) = NoErr THEN "done" ELSE "failed",
                            key |-> @.key, data |-> resp.body, err |-> QueryError(resp)]]
       IN  tasks' = IF pc = "gather" /\ GatherRaises(answered)
                    THEN TasksAfterJoinFailure(answered)
                    ELSE answered
    /\ IF pc = "gather" /\ GatherRaises(tasks')
       THEN pc' = "done" /\ outcome' = Raise(tasks'[i].err,
                                           IF resp.kind = "raise" THEN "transport"
                                           ELSE "in_band")
       ELSE UNCHANGED <<pc, outcome>>
    /\ UNCHANGED <<now, auxVars, req, center, all_elements, features, skateparks, idx,
                   nreq, lookups, kin, kout, qry>>

\* gather returned the three results: merge, normalise, filter, return
\* (skatepark_service.py:101-130, 147-156)
JoinMerge ==
    /\ pc = "gather"
    /\ \A i \in 1 .. 3 : tasks[i].st # "pending"
    /\ LET results == GatherResults(tasks)
           els == MergeElements(results)
           fs == OsmElementsToGeojson(els)
           sk == BuildSkateparks(fs)
       IN  /\ all_elements' = els
           /\ features' = fs
           /\ skateparks' = sk
           /\ outcome' = [kind |-> "ok",
                          result |-> AggregateResult(sk, req.city, center, req.radius_m)]
    /\ pc' = "done"
    /\ UNCHANGED <<store, now, auxVars, req, center, tasks, idx, nreq, lookups, sideVars>>

NextMerge ==
    \/ JoinStart
    \/ \E i \in 1 .. 3, resp \in Responses : JoinAnswer(i, resp)
    \/ JoinMerge

SpecMerge == Init /\ [][NextMerge]_vars

\* the three result sets one after the other, in the fixed query order
Concatenated == ResultElements(1) \o ResultElements(2) \o ResultElements(3)

\* the positions of Concatenated that hold the first occurrence of their (kind, id)
\* and give a record: usable coordinate and a name that is not blank
RecordPositions ==
    {p \in 1 .. Len(Concatenated) :
        /\ \A q \in 1 .. p - 1 : ElementKey(Concatenated[q]) # ElementKey(Concatenated[p])
        /\ Usable(Concatenated[p])
        /\ Named(Concatenated[p])}

\* the k-th of them
RecordPosition(k) ==
    CHOOSE p \in RecordPositions : Cardinality({q \in RecordPositions : q <= p}) = k

\* C22: the record sequence of a result is a function of the three result sets alone,
\* not of the order in which the sub-queries complete: the elements are merged in the
\* fixed query order, each result set in its own order, and for a (kind, id) present
\* in several result sets the occurrence from the earliest query is the one kept.
C22_RecordsIndependentOfCompletionOrder ==
    Returned =>
        LET sk == outcome.result.skateparks IN
        /\ Len(sk) = Cardinality(RecordPositions)
        /\ \A k \in 1 .. Len(sk) :
              LET el == Concatenated[RecordPosition(k)] IN
              /\ sk[k].origin = ElementKey(el)
              /\ sk[k].name = Strip(el["tags"]["name"])
              /\ sk[k].address = BuildDisplayAddress(el["tags"])

\* C22's case: the third query finished first and the first query last; an element
\* came back from the first and the third query under different names, and the record
\* carries the name the first query gave
C22_Witness ==
    /\ Returned
    /\ order = <<3, 2, 1>>
    /\ \E a \in 1 .. Len(ResultElements(1)), b \in 1 .. Len(ResultElements(3)) :
          /\ ElementKey(ResultElements(1)[a]) = ElementKey(ResultElements(3)[b])
          /\ ResultElements(1)[a]["tags"]["name"] # ResultElements(3)[b]["tags"]["name"]
          /\ \E k \in 1 .. Len(outcome.result.skateparks) :
                /\ outcome.result.skateparks[k].origin = ElementKey(ResultElements(1)[a])
                /\ outcome.result.skateparks[k].name = ResultElements(1)[a]["tags"]["name"]
    /\ Len(outcome.result.skateparks) > 1

====
